---- MODULE Spec2Model ----
(***************************************************************************)
(* A model of monarch (src/monarch/__init__.py): the migrate and           *)
(* list_migrations commands over the history ledger, the local backup      *)
(* pipeline with its archive naming, the restore, copy_db and drop_db      *)
(* commands, and the packaging and unpacking of a dump.  Spec, SpecBackup  *)
(* and SpecCmd run one invocation at a time; SpecRace and SpecBackupRace   *)
(* let invocations overlap; SpecZip is the archive round trip; SpecAll is  *)
(* every command, one at a time.                                           *)
(*                                                                         *)
(* The modules monarch.mongo and monarch.models are imported by the source *)
(* (lines 22-26) but are not part of it.  Their operations (process,       *)
(* find_by_key, dump_db, restore, copy_db, drop) are modelled from the     *)
(* specification's sections 4.2-4.6.                                       *)
(***************************************************************************)
EXTENDS Integers, Sequences, FiniteSets, TLC

\* ------------------------------------------------------------------------
\* Bounds of the model
\* ------------------------------------------------------------------------
MaxUnits == 3        \* at most this many migration files in the directory
MaxRuns == 2         \* migrate invocations that reach the ledger

\* ------------------------------------------------------------------------
\* Configuration (Config.configure_from_settings_file)
\* ------------------------------------------------------------------------
Environments == {"development", "production"}
EnvArgs == Environments \cup {"staging"}   \* "staging" is not in settings

Runners == {1, 2}    \* identities of migrate invocations

\* ------------------------------------------------------------------------
\* Migration names.  generate_migration_name builds
\*    _{timestamp:%Y%m%d%H%M}_{name}_migration
\* A unit is <<timestamp digits, label>>, both sequences of code points.
\* The timestamp has a fixed width (strftime pads every field); "09" and "10"
\* are two timestamps of one width.
\* ------------------------------------------------------------------------
Timestamps == { <<48, 57>>, <<49, 48>> }          \* "09", "10"
Labels == { <<97>>, <<97, 98>> }                  \* "a", "ab"
UnitPool == Timestamps \X Labels

\* "_" ts "_" label "_migration"
NameStr(u) ==
    <<95>> \o u[1] \o <<95>> \o u[2]
           \o <<95, 109, 105, 103, 114, 97, 116, 105, 111, 110>>

\* Python's str comparison a < b: code point by code point, a proper prefix
\* is smaller.
RECURSIVE StrLess(_, _)
StrLess(a, b) ==
    IF b = <<>> THEN FALSE
    ELSE IF a = <<>> THEN TRUE
    ELSE IF Head(a) # Head(b) THEN Head(a) < Head(b)
    ELSE StrLess(Tail(a), Tail(b))

\* The ordering key of a unit: its timestamp prefix read as a number.
RECURSIVE DigitsValue(_)
DigitsValue(d) ==
    IF d = <<>> THEN 0
    ELSE 10 * DigitsValue(SubSeq(d, 1, Len(d) - 1)) + (d[Len(d)] - 48)

OrderingKey(u) == DigitsValue(u[1])

\* sorted(migrations.items()): ascending by the name string (names are the
\* dictionary's keys, so they are distinct and the classes are never compared)
RECURSIVE sorted(_)
sorted(S) ==
    IF S = {} THEN <<>>
    ELSE LET m == CHOOSE x \in S :
                     \A y \in S \ {x} : StrLess(NameStr(x), NameStr(y))
         IN  <<m>> \o sorted(S \ {m})

\* A plausible slip: the discovered names are sorted on the label that
\* follows the timestamp instead of on the whole name.
RECURSIVE sortedByLabel(_)
sortedByLabel(S) ==
    IF S = {} THEN <<>>
    ELSE LET m == CHOOSE x \in S :
                     \A y \in S \ {x} :
                        \/ StrLess(x[2], y[2])
                        \/ x[2] = y[2] /\ StrLess(x[1], y[1])
         IN  <<m>> \o sortedByLabel(S \ {m})

find_migrations_byLabel(dir) == sortedByLabel(dir)

\* find_migrations: every *_migration.py of the directory, ordered
find_migrations(dir) == sorted(dir)

\* ------------------------------------------------------------------------
\* State
\* ------------------------------------------------------------------------
VARIABLES
    files,        \* the migration units in the migration directory
    ledger,       \* ledger[env][unit]: "absent", "RUNNING", "COMPLETE", "FAILED"
    rpc,          \* rpc[r]: where migrate invocation r stands
    renv,         \* renv[r]: the environment r is connected to
    rmigs,        \* rmigs[r]: the ordered units r iterates
    ridx,         \* ridx[r]: position in rmigs[r] of the unit being processed
    found,        \* found[r]: what the ledger lookup of the current unit gave
    startLedger,  \* startLedger[r]: ledger[renv[r]] when r began (history)
    bodies,       \* bodies[r]: units whose run() r has invoked (history)
    outcome,      \* outcome[r]: how the invocation ended
    runsOn,       \* runsOn[env]: migrate runs finished against env
    anyFailure,   \* some body raised or some run was interrupted (history)
    listing,      \* output of the last list_migrations, or NoListing
    dirExists,    \* the migration directory exists
    execs,        \* execs[env][u]: invocations of u's body against env (history)
    roverlap      \* two migrate invocations were in progress at once (history)

mvars == <<files, ledger, rpc, renv, rmigs, ridx, found, startLedger, bodies,
           outcome, runsOn, anyFailure, listing, dirExists, execs, roverlap>>

VARIABLES
    backupsCfg,   \* what settings.BACKUPS holds
    store,        \* the archives in the backup directory: [name, bytes]
    today,        \* the UTC date datetime.utcnow() gives
    staging,      \* staging[p]: 'MongoDump.zip' in p's working directory
    tempDirs,     \* how many directories made by mkdtemp exist
    nbackups,     \* backup pipelines started (gives each dump its bytes)
    bpc,          \* bpc[p]: where backup invocation p stands
    benv,         \* benv[p]: the environment p backs up
    btmp,         \* btmp[p]: p's temp_dir exists
    bdate,        \* bdate[p]: the first date generate_unique_name read
    bstable,      \* bstable[p]: every date it read was that date (history)
    bcounter,     \* bcounter[p]: the counter of generate_unique_name
    bdest,        \* bdest[p]: unique_file_path
    bres,         \* bres[p]: how the invocation ended
    bnum,         \* bnum[p]: which pipeline p runs, counted from the first
    overlap       \* two backup invocations were in progress at once (history)

bvars == <<backupsCfg, store, today, staging, tempDirs, nbackups, bpc, benv,
           btmp, bdate, bstable, bcounter, bdest, bres, bnum, overlap>>

VARIABLES
    db,           \* db[env]: the data set of the environment
    cpc,          \* where the restore / copy_db / drop_db command stands
    ccmd,         \* the command running
    csrc,         \* the archive name (restore) or source environment (copy_db)
    cto,          \* the target environment
    cconfirmed,   \* the operator's answer in this execution, or "none"
    ctmp,         \* the directory made by temp_directory() exists
    cinvoked,     \* the restore, copy or drop capability was invoked (history)
    dbStart,      \* db when the command began (history)
    cres          \* how the command ended

cvars == <<db, cpc, ccmd, csrc, cto, cconfirmed, ctmp, cinvoked, dbStart,
           cres>>

VARIABLES
    ztree,        \* the files under the dump path: [path, bytes]
    zarchive,     \* the entries of the archive written from it, in order
    zout,         \* the files under the directory the archive is unpacked to
    zpc           \* where the round trip stands

zvars == <<ztree, zarchive, zout, zpc>>

VARIABLE
    family        \* the commands a behaviour exercises

vars == <<mvars, bvars, cvars, zvars, family>>

States == {"absent", "RUNNING", "COMPLETE", "FAILED"}
NoListing == <<"none">>
NoEnv == "none"
EmptyLedger == [u \in UnitPool |-> "absent"]

InitMigrate ==
    /\ files \in {S \in SUBSET UnitPool : Cardinality(S) <= MaxUnits}
    /\ dirExists \in BOOLEAN
    /\ ~dirExists => files = {}
    /\ execs = [e \in Environments |-> [u \in UnitPool |-> 0]]
    /\ roverlap = FALSE
    /\ ledger = [e \in Environments |-> EmptyLedger]
    /\ rpc = [r \in Runners |-> "idle"]
    /\ renv = [r \in Runners |-> NoEnv]
    /\ rmigs = [r \in Runners |-> <<>>]
    /\ ridx = [r \in Runners |-> 0]
    /\ found = [r \in Runners |-> "none"]
    /\ startLedger = [r \in Runners |-> EmptyLedger]
    /\ bodies = [r \in Runners |-> {}]
    /\ outcome = [r \in Runners |-> "none"]
    /\ runsOn = [e \in Environments |-> 0]
    /\ anyFailure = FALSE
    /\ listing = NoListing

\* Line 284, glob('{}/*_migration.py'): the files matching the pattern; none
\* when the directory does not exist.
Glob == IF dirExists THEN files ELSE {}

\* the unit invocation r is processing
Current(r) == rmigs[r][ridx[r]]

\* the bound on the runs explored
TotalRuns == runsOn["development"] + runsOn["production"]

\* no other invocation is in progress (the single-invoker assumption)
Alone(r) == \A q \in Runners \ {r} : rpc[q] = "idle"

\* ------------------------------------------------------------------------
\* migrate
\* ------------------------------------------------------------------------

\* A plausible slip: the loop body calls the unit's run() itself.
LoopCallee_run == "body"

\* Line 199: the loop body calls migration_instance.process(), which starts
\* with the ledger lookup.
LoopCallee == "lookup"

\* Lines 187-201 up to the first loop iteration.
migrate(r, e) ==
    /\ UNCHANGED <<bvars, cvars, zvars, family>>
    /\ rpc[r] = "idle"
    /\ listing' = NoListing
    /\ roverlap' = (roverlap \/ ~Alone(r))
    /\ UNCHANGED <<files, dirExists, ledger, runsOn, anyFailure, found, bodies,
                   execs>>
    /\ IF e \notin Environments
       THEN \* exit_with_message("Environment not described in settings.py")
            /\ rpc' = [rpc EXCEPT ![r] = "done"]
            /\ outcome' = [outcome EXCEPT ![r] = "badenv"]
            /\ UNCHANGED <<renv, rmigs, ridx, startLedger>>
       ELSE LET m == find_migrations(Glob) IN
            IF m # <<>>
            THEN /\ TotalRuns < MaxRuns
                 /\ renv' = [renv EXCEPT ![r] = e]
                 /\ rmigs' = [rmigs EXCEPT ![r] = m]
                 /\ ridx' = [ridx EXCEPT ![r] = 1]
                 /\ startLedger' = [startLedger EXCEPT ![r] = ledger[e]]
                 /\ rpc' = [rpc EXCEPT ![r] = LoopCallee]
                 /\ UNCHANGED outcome
            ELSE \* "No migrations exist"
                 /\ rpc' = [rpc EXCEPT ![r] = "done"]
                 /\ outcome' = [outcome EXCEPT ![r] = "nomigs"]
                 /\ UNCHANGED <<renv, rmigs, ridx, startLedger>>

\* The for loop of line 195 moves to the next unit, or ends.
NextUnit(r) ==
    IF ridx[r] < Len(rmigs[r])
    THEN /\ ridx' = [ridx EXCEPT ![r] = ridx[r] + 1]
         /\ rpc' = [rpc EXCEPT ![r] = LoopCallee]
         /\ UNCHANGED outcome
    ELSE /\ rpc' = [rpc EXCEPT ![r] = "done"]
         /\ outcome' = [outcome EXCEPT ![r] = "ok"]
         /\ UNCHANGED ridx

\* A plausible slip: the loop catches the exception and goes on.
OnRaise_continue(r) ==
    IF ridx[r] < Len(rmigs[r])
    THEN /\ ridx' = [ridx EXCEPT ![r] = ridx[r] + 1]
         /\ rpc' = [rpc EXCEPT ![r] = LoopCallee]
         /\ UNCHANGED outcome
    ELSE /\ rpc' = [rpc EXCEPT ![r] = "done"]
         /\ outcome' = [outcome EXCEPT ![r] = "raised"]
         /\ UNCHANGED ridx

\* Lines 195-199 hold no try/except: an exception leaving process() leaves
\* the loop and the command.
OnRaise(r) ==
    /\ rpc' = [rpc EXCEPT ![r] = "done"]
    /\ outcome' = [outcome EXCEPT ![r] = "raised"]
    /\ UNCHANGED ridx

\* process(), first step: lookup(name).  A record in any state is a skip.
ProcessLookup(r) ==
    /\ UNCHANGED <<bvars, cvars, zvars, family, execs, roverlap>>
    /\ rpc[r] = "lookup"
    /\ LET rec == ledger[renv[r]][Current(r)] IN
       /\ found' = [found EXCEPT ![r] = rec]
       /\ IF rec = "absent"
          THEN /\ rpc' = [rpc EXCEPT ![r] = "begin"]
               /\ UNCHANGED <<ridx, outcome>>
          ELSE NextUnit(r)
    /\ listing' = NoListing
    /\ UNCHANGED <<files, dirExists, ledger, renv, rmigs, startLedger, bodies, runsOn,
                   anyFailure>>

\* process(), second step: begin(name) writes the RUNNING record.
ProcessBegin(r) ==
    /\ UNCHANGED <<bvars, cvars, zvars, family, execs, roverlap>>
    /\ rpc[r] = "begin"
    /\ ledger' = [ledger EXCEPT ![renv[r]][Current(r)] = "RUNNING"]
    /\ rpc' = [rpc EXCEPT ![r] = "body"]
    /\ listing' = NoListing
    /\ UNCHANGED <<files, dirExists, renv, rmigs, ridx, found, startLedger, bodies,
                   outcome, runsOn, anyFailure>>

\* The body returns: complete(name).
BodyOk(r) ==
    /\ UNCHANGED <<bvars, cvars, zvars, family, roverlap>>
    /\ rpc[r] = "body"
    /\ execs' = [execs EXCEPT ![renv[r]][Current(r)] = @ + 1]
    /\ bodies' = [bodies EXCEPT ![r] = @ \cup {Current(r)}]
    /\ ledger' = [ledger EXCEPT ![renv[r]][Current(r)] = "COMPLETE"]
    /\ NextUnit(r)
    /\ listing' = NoListing
    /\ UNCHANGED <<files, dirExists, renv, rmigs, found, startLedger, runsOn, anyFailure>>

\* The body raises: fail(name, cause), and the exception goes on to migrate.
BodyRaise(r) ==
    /\ UNCHANGED <<bvars, cvars, zvars, family, roverlap>>
    /\ rpc[r] = "body"
    /\ execs' = [execs EXCEPT ![renv[r]][Current(r)] = @ + 1]
    /\ bodies' = [bodies EXCEPT ![r] = @ \cup {Current(r)}]
    /\ ledger' = [ledger EXCEPT ![renv[r]][Current(r)] = "FAILED"]
    /\ anyFailure' = TRUE
    /\ OnRaise(r)
    /\ listing' = NoListing
    /\ UNCHANGED <<files, dirExists, renv, rmigs, found, startLedger, runsOn>>

\* The process dies while the body runs: the RUNNING record stays.
Crash(r) ==
    /\ UNCHANGED <<bvars, cvars, zvars, family, roverlap>>
    /\ rpc[r] = "body"
    /\ execs' = [execs EXCEPT ![renv[r]][Current(r)] = @ + 1]
    /\ bodies' = [bodies EXCEPT ![r] = @ \cup {Current(r)}]
    /\ anyFailure' = TRUE
    /\ rpc' = [rpc EXCEPT ![r] = "done"]
    /\ outcome' = [outcome EXCEPT ![r] = "crashed"]
    /\ listing' = NoListing
    /\ UNCHANGED <<files, dirExists, ledger, renv, rmigs, ridx, found, startLedger,
                   runsOn>>

\* The command has ended; the invocation's local state goes away.
Finish(r) ==
    /\ UNCHANGED <<bvars, cvars, zvars, family, execs, roverlap>>
    /\ rpc[r] = "done"
    /\ runsOn' = IF renv[r] \in Environments
                 THEN [runsOn EXCEPT ![renv[r]] = @ + 1] ELSE runsOn
    /\ rpc' = [rpc EXCEPT ![r] = "idle"]
    /\ renv' = [renv EXCEPT ![r] = NoEnv]
    /\ rmigs' = [rmigs EXCEPT ![r] = <<>>]
    /\ ridx' = [ridx EXCEPT ![r] = 0]
    /\ found' = [found EXCEPT ![r] = "none"]
    /\ startLedger' = [startLedger EXCEPT ![r] = EmptyLedger]
    /\ bodies' = [bodies EXCEPT ![r] = {}]
    /\ outcome' = [outcome EXCEPT ![r] = "none"]
    /\ listing' = NoListing
    /\ UNCHANGED <<files, dirExists, ledger, anyFailure>>

\* ------------------------------------------------------------------------
\* list_migrations
\* ------------------------------------------------------------------------

\* A plausible slip: the test of line 170 inverted.
LiztLine_inverted(name, meta) ==
    IF meta = "absent" THEN <<name, "COMPLETE">> ELSE <<name, "NOT RUN">>

\* Lines 169-173: one output line, the record's state or NOT RUN.
LiztLine(name, meta) ==
    IF meta # "absent" THEN <<name, meta>> ELSE <<name, "NOT RUN">>

\* A plausible slip: the names are gone through from the last one.
LiztReport_reversed(names, led) ==
    [i \in 1..Len(names) |->
        LiztLine(names[Len(names) + 1 - i], led[names[Len(names) + 1 - i]])]

\* Lines 165-176: the lines echoed for the ordered names.
LiztReport(names, led) ==
    [i \in 1..Len(names) |-> LiztLine(names[i], led[names[i]])]

\* Lines 158-176.
lizt(e) ==
    /\ UNCHANGED <<bvars, cvars, zvars, family, execs, roverlap>>
    /\ \A r \in Runners : rpc[r] = "idle"
    /\ listing = NoListing
    /\ listing' = IF e \notin Environments THEN <<"exit">>
                  ELSE <<"listing", e, LiztReport(find_migrations(Glob), ledger[e])>>
    /\ UNCHANGED <<files, dirExists, ledger, rpc, renv, rmigs, ridx, found, startLedger,
                   bodies, outcome, runsOn, anyFailure>>

\* no migrate invocation and no migration file
IdleMigrate ==
    /\ files = {}
    /\ dirExists = TRUE
    /\ execs = [e \in Environments |-> [u \in UnitPool |-> 0]]
    /\ roverlap = FALSE
    /\ ledger = [e \in Environments |-> EmptyLedger]
    /\ rpc = [r \in Runners |-> "idle"]
    /\ renv = [r \in Runners |-> NoEnv]
    /\ rmigs = [r \in Runners |-> <<>>]
    /\ ridx = [r \in Runners |-> 0]
    /\ found = [r \in Runners |-> "none"]
    /\ startLedger = [r \in Runners |-> EmptyLedger]
    /\ bodies = [r \in Runners |-> {}]
    /\ outcome = [r \in Runners |-> "none"]
    /\ runsOn = [e \in Environments |-> 0]
    /\ anyFailure = FALSE
    /\ listing = NoListing

\* ------------------------------------------------------------------------
\* backup
\* ------------------------------------------------------------------------
MaxBackups == 2      \* backup pipelines started
MaxDay == 2          \* the clock's last date
MaxPre == 3          \* archives in the store at the start

Invokers == {1, 2}   \* identities of backup invocations

\* environment['db_name']
DbName == [e \in Environments |->
              IF e = "development" THEN "devdb" ELSE "proddb"]

\* settings.BACKUPS: absent; LOCAL with an existing backup_dir; LOCAL without
\* the backup_dir key; LOCAL whose backup_dir is no directory; S3; neither
BackupsCfgs == {"unset", "local", "local_nokey", "local_nodir", "s3", "other"}

\* Lines 532 and 543: "{}__{}.dmp.zip" and "{}__{}_{}.dmp.zip".  A counter of
\* 0 stands for the first format, which has no counter.
ArchiveName(dbname, date, counter) ==
    IF counter = 0
    THEN <<dbname, "__", date, ".dmp.zip">>
    ELSE <<dbname, "__", date, "_", counter, ".dmp.zip">>

\* file contents: an archive that was in the store from the start, the
\* archive of the n-th dump, and no file
OldBytes == <<"old", 0>>
NoFile == <<"none", 0>>

\* os.listdir(backup_dir)
StoreNames(st) == {a.name : a \in st}

\* A plausible slip: the existence test looks at another path.
PathExists_elsewhere(st, name) == FALSE

\* os.path.exists(os.path.join(backup_dir, name))
PathExists(st, name) == name \in StoreNames(st)

\* A plausible slip: the name is formatted before the counter is incremented.
LoopCounter_late(c) == c

\* Line 542: the counter the loop's name attempt uses
LoopCounter(c) == c + 1

\* archives an operator may have in the store already
PreNames ==
    { ArchiveName("devdb", 1, 0), ArchiveName("devdb", 1, 2),
      ArchiveName("devdb", 1, 3), ArchiveName("devdb", 2, 0) }

InitBackup ==
    /\ backupsCfg \in BackupsCfgs
    /\ \E N \in SUBSET PreNames :
          /\ Cardinality(N) <= MaxPre
          /\ store = {[name |-> n, bytes |-> OldBytes] : n \in N}
    /\ today = 1
    /\ staging = [p \in Invokers |-> NoFile]
    /\ bnum = [p \in Invokers |-> 0]
    /\ overlap = FALSE
    /\ tempDirs = 0
    /\ nbackups = 0
    /\ bpc = [p \in Invokers |-> "idle"]
    /\ benv = [p \in Invokers |-> NoEnv]
    /\ btmp = [p \in Invokers |-> FALSE]
    /\ bdate = [p \in Invokers |-> 0]
    /\ bstable = [p \in Invokers |-> TRUE]
    /\ bcounter = [p \in Invokers |-> 0]
    /\ bdest = [p \in Invokers |-> <<>>]
    /\ bres = [p \in Invokers |-> "none"]

\* no backup invocation, an empty local store
IdleBackup ==
    /\ backupsCfg = "local"
    /\ store = {}
    /\ today = 1
    /\ staging = [p \in Invokers |-> NoFile]
    /\ bnum = [p \in Invokers |-> 0]
    /\ overlap = FALSE
    /\ tempDirs = 0
    /\ nbackups = 0
    /\ bpc = [p \in Invokers |-> "idle"]
    /\ benv = [p \in Invokers |-> NoEnv]
    /\ btmp = [p \in Invokers |-> FALSE]
    /\ bdate = [p \in Invokers |-> 0]
    /\ bstable = [p \in Invokers |-> TRUE]
    /\ bcounter = [p \in Invokers |-> 0]
    /\ bdest = [p \in Invokers |-> <<>>]
    /\ bres = [p \in Invokers |-> "none"]

BAlone(p) == \A q \in Invokers \ {p} : bpc[q] = "idle"

\* the invocation ends with result res
BEnd(p, res) ==
    /\ bpc' = [bpc EXCEPT ![p] = "done"]
    /\ bres' = [bres EXCEPT ![p] = res]

\* A plausible slip: the test of the name is left out.
confirm_environment_noop(e) == TRUE

\* Lines 304-306: confirm_environment returns for a configured name and
\* exits for any other.
confirm_environment(e) == e \in Environments

\* Line 404: 'backup_dir' in local_settings
HasBackupDir(cfg) == cfg # "local_nokey"

\* A plausible slip: the directory is not tested.
IsDir_unchecked(cfg) == TRUE

\* Line 409: os.path.isdir(backup_dir)
IsDir(cfg) == cfg # "local_nodir"

\* backup (lines 311-327) and backup_localy up to mkdtemp (lines 402-415)
backup(p, e) ==
    /\ UNCHANGED <<mvars, cvars, zvars, family>>
    /\ bpc[p] = "idle"
    /\ nbackups < MaxBackups
    /\ overlap' = (overlap \/ ~BAlone(p))
    /\ UNCHANGED <<backupsCfg, store, today, staging, bdate, bstable,
                   bcounter, bdest>>
    /\ IF backupsCfg = "unset"
       THEN \* 'BACKUPS not configured, exiting'
            BEnd(p, "exit") /\ UNCHANGED <<tempDirs, nbackups, benv, btmp, bnum>>
       ELSE IF ~confirm_environment(e)
       THEN \* '... is not in settings.  Exiting ...'
            BEnd(p, "badenv") /\ UNCHANGED <<tempDirs, nbackups, benv, btmp, bnum>>
       ELSE IF backupsCfg = "s3"
       THEN \* backup_to_s3 raises NotImplementedError
            BEnd(p, "raised") /\ UNCHANGED <<tempDirs, nbackups, benv, btmp, bnum>>
       ELSE IF backupsCfg = "other"
       THEN \* 'BACKUPS not configured, exiting'
            BEnd(p, "exit") /\ UNCHANGED <<tempDirs, nbackups, benv, btmp, bnum>>
       ELSE IF ~HasBackupDir(backupsCfg)
       THEN \* 'Local Settings not configured correctly, expecting ...'
            BEnd(p, "exit") /\ UNCHANGED <<tempDirs, nbackups, benv, btmp, bnum>>
       ELSE IF ~IsDir(backupsCfg)
       THEN \* 'Directory [...] does not exist.  Exiting ...'
            BEnd(p, "exit") /\ UNCHANGED <<tempDirs, nbackups, benv, btmp, bnum>>
       ELSE \* temp_dir = mkdtemp()
            /\ btmp' = [btmp EXCEPT ![p] = TRUE]
            /\ tempDirs' = tempDirs + 1
            /\ nbackups' = nbackups + 1
            /\ bnum' = [bnum EXCEPT ![p] = nbackups + 1]
            /\ benv' = [benv EXCEPT ![p] = e]
            /\ bpc' = [bpc EXCEPT ![p] = "dump"]
            /\ UNCHANGED bres

\* Line 417: dump_db writes the dump under temp_dir.
Dump(p) ==
    /\ UNCHANGED <<mvars, cvars, zvars, family, bnum>>
    /\ bpc[p] = "dump"
    /\ bpc' = [bpc EXCEPT ![p] = "zip"]
    /\ UNCHANGED <<backupsCfg, overlap, store, today, staging, tempDirs, nbackups,
                   benv, btmp, bdate, bstable, bcounter, bdest, bres>>

\* Line 417: dump_db raises.
DumpFail(p) ==
    /\ UNCHANGED <<mvars, cvars, zvars, family, bnum>>
    /\ bpc[p] = "dump"
    /\ BEnd(p, "dump_failed")
    /\ UNCHANGED <<backupsCfg, overlap, store, today, staging, tempDirs, nbackups,
                   benv, btmp, bdate, bstable, bcounter, bdest>>

\* Lines 426-428: the dump is written to MongoDump.zip.
Zip(p) ==
    /\ UNCHANGED <<mvars, cvars, zvars, family, bnum>>
    /\ bpc[p] = "zip"
    /\ staging' = [staging EXCEPT ![p] = <<"dump", bnum[p]>>]
    /\ bpc' = [bpc EXCEPT ![p] = "name"]
    /\ UNCHANGED <<backupsCfg, overlap, store, today, tempDirs, nbackups, benv, btmp,
                   bdate, bstable, bcounter, bdest, bres>>

\* Lines 426-428: writing the archive raises; the file was opened for writing.
ZipFail(p) ==
    /\ UNCHANGED <<mvars, cvars, zvars, family, bnum>>
    /\ bpc[p] = "zip"
    /\ staging' = [staging EXCEPT ![p] = <<"partial", bnum[p]>>]
    /\ BEnd(p, "zip_failed")
    /\ UNCHANGED <<backupsCfg, overlap, store, today, tempDirs, nbackups, benv, btmp,
                   bdate, bstable, bcounter, bdest>>

\* generate_unique_name, lines 532-540: the name without a counter.
GenName(p) ==
    /\ UNCHANGED <<mvars, cvars, zvars, family, bnum>>
    /\ bpc[p] = "name"
    /\ bdate' = [bdate EXCEPT ![p] = today]
    /\ bstable' = [bstable EXCEPT ![p] = TRUE]
    /\ LET attempt == ArchiveName(DbName[benv[p]], today, 0) IN
       IF ~PathExists(store, attempt)
       THEN /\ bdest' = [bdest EXCEPT ![p] = attempt]
            /\ bpc' = [bpc EXCEPT ![p] = "move"]
            /\ UNCHANGED bcounter
       ELSE /\ bcounter' = [bcounter EXCEPT ![p] = 1]
            /\ bpc' = [bpc EXCEPT ![p] = "loop"]
            /\ UNCHANGED bdest
    /\ UNCHANGED <<backupsCfg, overlap, store, today, staging, tempDirs, nbackups,
                   benv, btmp, bres>>

\* generate_unique_name, lines 541-548: one pass of the while loop.
GenLoop(p) ==
    /\ UNCHANGED <<mvars, cvars, zvars, family, bnum>>
    /\ bpc[p] = "loop"
    /\ bcounter' = [bcounter EXCEPT ![p] = bcounter[p] + 1]
    /\ bstable' = [bstable EXCEPT ![p] = bstable[p] /\ today = bdate[p]]
    /\ LET attempt == ArchiveName(DbName[benv[p]], today,
                                  LoopCounter(bcounter[p])) IN
       IF PathExists(store, attempt)
       THEN UNCHANGED <<bdest, bpc>>
       ELSE /\ bdest' = [bdest EXCEPT ![p] = attempt]
            /\ bpc' = [bpc EXCEPT ![p] = "move"]
    /\ UNCHANGED <<backupsCfg, overlap, store, today, staging, tempDirs, nbackups,
                   benv, btmp, bdate, bres>>

\* Line 434: shutil.move puts MongoDump.zip at the destination path, replacing
\* a file that is there.
Move(p) ==
    /\ UNCHANGED <<mvars, cvars, zvars, family, bnum>>
    /\ bpc[p] = "move"
    /\ store' = {a \in store : a.name # bdest[p]}
                   \cup {[name |-> bdest[p], bytes |-> staging[p]]}
    /\ staging' = [staging EXCEPT ![p] = NoFile]
    /\ BEnd(p, "ok")
    /\ UNCHANGED <<backupsCfg, overlap, today, tempDirs, nbackups, benv, btmp, bdate,
                   bstable, bcounter, bdest>>

\* Line 434: shutil.move raises.
MoveFail(p) ==
    /\ UNCHANGED <<mvars, cvars, zvars, family, bnum>>
    /\ bpc[p] = "move"
    /\ BEnd(p, "move_failed")
    /\ UNCHANGED <<backupsCfg, overlap, store, today, staging, tempDirs, nbackups,
                   benv, btmp, bdate, bstable, bcounter, bdest>>

\* The command has ended; its temp_dir, which nothing removed, stays on disk.
BFinish(p) ==
    /\ UNCHANGED <<mvars, cvars, zvars, family>>
    /\ bpc[p] = "done"
    /\ bpc' = [bpc EXCEPT ![p] = "idle"]
    /\ benv' = [benv EXCEPT ![p] = NoEnv]
    /\ btmp' = [btmp EXCEPT ![p] = FALSE]
    /\ bdate' = [bdate EXCEPT ![p] = 0]
    /\ bstable' = [bstable EXCEPT ![p] = TRUE]
    /\ bcounter' = [bcounter EXCEPT ![p] = 0]
    /\ bdest' = [bdest EXCEPT ![p] = <<>>]
    /\ bres' = [bres EXCEPT ![p] = "none"]
    /\ bnum' = [bnum EXCEPT ![p] = 0]
    /\ UNCHANGED <<backupsCfg, overlap, store, today, staging, tempDirs, nbackups>>

\* Midnight UTC passes.
Tick ==
    /\ UNCHANGED <<mvars, cvars, zvars, family, bnum>>
    /\ today < MaxDay
    /\ today' = today + 1
    /\ UNCHANGED <<backupsCfg, overlap, store, staging, tempDirs, nbackups, bpc, benv,
                   btmp, bdate, bstable, bcounter, bdest, bres>>

\* ------------------------------------------------------------------------
\* restore, copy_db, drop_db
\* ------------------------------------------------------------------------

\* data sets
Empty == <<"empty", 0>>
Partial == <<"partial", 0>>
InitialData == {<<"data", 1>>, <<"data", 2>>}

\* the data set an archive's dump holds
DataOf(bytes) == <<"restored", bytes[2]>>

\* from_to.split(':'): the parts of the argument
ArchiveArgs == {ArchiveName("devdb", 1, 0), ArchiveName("devdb", 2, 0)}
RestoreArgs ==
    {<<a>> : a \in ArchiveArgs}
        \cup (ArchiveArgs \X EnvArgs)
        \cup {<<a, "development", "x">> : a \in ArchiveArgs}
CopyArgs ==
    {<<e>> : e \in EnvArgs}
        \cup (EnvArgs \X EnvArgs)
        \cup {<<e, "development", "x">> : e \in EnvArgs}

InitCmd ==
    /\ db \in [Environments -> InitialData]
    /\ cpc = "idle"
    /\ ccmd = "none"
    /\ csrc = <<>>
    /\ cto = NoEnv
    /\ cconfirmed = "none"
    /\ ctmp = FALSE
    /\ cinvoked = FALSE
    /\ dbStart = db
    /\ cres = "none"

\* no command running
IdleCmd ==
    /\ db = [e \in Environments |-> <<"data", 1>>]
    /\ cpc = "idle"
    /\ ccmd = "none"
    /\ csrc = <<>>
    /\ cto = NoEnv
    /\ cconfirmed = "none"
    /\ ctmp = FALSE
    /\ cinvoked = FALSE
    /\ dbStart = db
    /\ cres = "none"

\* the store a restore draws from
InitStore ==
    /\ backupsCfg \in BackupsCfgs
    /\ \E N \in SUBSET ArchiveArgs :
          store = {[name |-> n, bytes |-> OldBytes] : n \in N}
    /\ today = 1
    /\ staging = [p \in Invokers |-> NoFile]
    /\ bnum = [p \in Invokers |-> 0]
    /\ overlap = FALSE
    /\ tempDirs = 0
    /\ nbackups = 0
    /\ bpc = [p \in Invokers |-> "idle"]
    /\ benv = [p \in Invokers |-> NoEnv]
    /\ btmp = [p \in Invokers |-> FALSE]
    /\ bdate = [p \in Invokers |-> 0]
    /\ bstable = [p \in Invokers |-> TRUE]
    /\ bcounter = [p \in Invokers |-> 0]
    /\ bdest = [p \in Invokers |-> <<>>]
    /\ bres = [p \in Invokers |-> "none"]

\* the command ends with result res
CEnd(res) ==
    /\ cpc' = "done"
    /\ cres' = res

\* the command begins
CBegin(cmd) ==
    /\ cpc = "idle"
    /\ ccmd' = cmd
    /\ dbStart' = db
    /\ cconfirmed' = "none"
    /\ cinvoked' = FALSE

\* backups(config) (lines 494-519) gives a listing that holds the name
InBackups(name) == backupsCfg = "local" /\ name \in StoreNames(store)

\* A plausible slip: the name is not looked up in the settings.
InEnvironments_any(name) == TRUE

\* Lines 259, 262, 458: name in config.environments
InEnvironments(name) == name \in Environments

\* restore, lines 450-462: up to the confirmation prompt
restore(arg) ==
    /\ UNCHANGED <<mvars, bvars, zvars, family>>
    /\ CBegin("restore")
    /\ UNCHANGED <<db, ctmp>>
    /\ IF Len(arg) = 1
       THEN \* "Expecting from:to syntax like production:local"
            CEnd("malformed") /\ UNCHANGED <<csrc, cto>>
       ELSE IF Len(arg) # 2
       THEN \* backup, to_db = from_to.split(':') raises ValueError
            CEnd("malformed_raised") /\ UNCHANGED <<csrc, cto>>
       ELSE IF ~InEnvironments(arg[2])
       THEN \* 'Environemnts does not have a specification for ...'
            CEnd("badenv") /\ UNCHANGED <<csrc, cto>>
       ELSE IF backupsCfg \in {"unset", "s3"}
       THEN \* config.backups is no attribute; s3_backups is not implemented
            CEnd("raised") /\ UNCHANGED <<csrc, cto>>
       ELSE IF backupsCfg # "local"
       THEN \* backups(config) exits on a misconfigured store
            CEnd("exit") /\ UNCHANGED <<csrc, cto>>
       ELSE IF ~InBackups(arg[1])
       THEN \* 'Can not find backup ..., run monarch list_backups ...'
            CEnd("notfound") /\ UNCHANGED <<csrc, cto>>
       ELSE /\ csrc' = arg[1]
            /\ cto' = arg[2]
            /\ cpc' = "confirm"
            /\ UNCHANGED cres

\* copy_db, lines 251-263: up to the confirmation prompt
copy_db(arg) ==
    /\ UNCHANGED <<mvars, bvars, zvars, family>>
    /\ CBegin("copy_db")
    /\ UNCHANGED <<db, ctmp>>
    /\ IF Len(arg) = 1
       THEN CEnd("malformed") /\ UNCHANGED <<csrc, cto>>
       ELSE IF Len(arg) # 2
       THEN CEnd("malformed_raised") /\ UNCHANGED <<csrc, cto>>
       ELSE IF ~InEnvironments(arg[1])
       THEN CEnd("badenv") /\ UNCHANGED <<csrc, cto>>
       ELSE IF ~InEnvironments(arg[2])
       THEN CEnd("badenv") /\ UNCHANGED <<csrc, cto>>
       ELSE /\ csrc' = <<arg[1]>>
            /\ cto' = arg[2]
            /\ cpc' = "confirm"
            /\ UNCHANGED cres

\* A plausible slip: the prompt's answer is not tested.
Confirmed_ignored(answer) == TRUE

\* click.confirm(...) is true when the operator answers yes
Confirmed(answer) == answer = "yes"

\* Lines 464-468 and 479-480 (restore), 265-269 (copy_db): the prompt, and on
\* yes the way into the capability.  zipOk: ZipFile(zip_path) opens.
Confirm(answer, zipOk) ==
    /\ UNCHANGED <<mvars, bvars, zvars, family>>
    /\ cpc = "confirm"
    /\ cconfirmed' = answer
    /\ UNCHANGED <<db, ccmd, csrc, cto, cinvoked, dbStart>>
    /\ IF ~Confirmed(answer)
       THEN CEnd("declined") /\ UNCHANGED ctmp
       ELSE IF ccmd = "copy_db"
       THEN cpc' = "copying" /\ UNCHANGED <<ctmp, cres>>
       ELSE IF ~zipOk
       THEN \* zipfile.ZipFile(zip_path) raises
            CEnd("badzip") /\ UNCHANGED ctmp
       ELSE \* temp_directory(): mkdtemp
            cpc' = "extract" /\ ctmp' = TRUE /\ UNCHANGED cres

\* Line 481: zip.extractall(path=temp_dir)
Extract ==
    /\ UNCHANGED <<mvars, bvars, zvars, family>>
    /\ cpc = "extract"
    /\ cpc' = "restoring"
    /\ UNCHANGED <<db, ccmd, csrc, cto, cconfirmed, ctmp, cinvoked, dbStart,
                   cres>>

\* A plausible slip: the exception of extractall is caught and dropped.
OnUnpackError_swallowed ==
    /\ cpc' = "restoring"
    /\ cres' = "unpack_failed"

\* Lines 480-482 hold no try/except: an exception of extractall leaves
\* restore_db and the command.
OnUnpackError == CEnd("unpack_failed")

\* Line 481 raises; temp_directory (lines 471-475) has no try/finally, so the
\* rmtree after the yield is not reached.
ExtractFail ==
    /\ UNCHANGED <<mvars, bvars, zvars, family>>
    /\ cpc = "extract"
    /\ OnUnpackError
    /\ UNCHANGED <<db, ccmd, csrc, cto, cconfirmed, ctmp, cinvoked, dbStart>>

\* the bytes of the archive being restored
SourceBytes == (CHOOSE a \in store : a.name = csrc).bytes

\* Line 482, restore_mongo_db: the target is dropped and the dump loaded;
\* then line 475 removes the directory.
RestoreRun ==
    /\ UNCHANGED <<mvars, bvars, zvars, family>>
    /\ cpc = "restoring"
    /\ cinvoked' = TRUE
    /\ db' = [db EXCEPT ![cto] = DataOf(SourceBytes)]
    /\ ctmp' = FALSE
    /\ CEnd("ok")
    /\ UNCHANGED <<ccmd, csrc, cto, cconfirmed, dbStart>>

\* Line 482 raises: the target is as it was, dropped, or partly loaded.
RestoreRunFail ==
    /\ UNCHANGED <<mvars, bvars, zvars, family>>
    /\ cpc = "restoring"
    /\ cinvoked' = TRUE
    /\ \E d \in {db[cto], Empty, Partial} : db' = [db EXCEPT ![cto] = d]
    /\ CEnd("raised")
    /\ UNCHANGED <<ccmd, csrc, cto, cconfirmed, ctmp, dbStart>>

\* A plausible slip: the arguments of copy_mongo_db exchanged.
CopyCallArgs_swapped(from_db, to_db) == <<to_db, from_db>>

\* Line 269: copy_mongo_db(config.environments[from_db],
\* config.environments[to_db]), the source first.
CopyCallArgs(from_db, to_db) == <<from_db, to_db>>

\* Line 269, copy_mongo_db: the destination gets the source's data set.
CopyRun ==
    /\ UNCHANGED <<mvars, bvars, zvars, family>>
    /\ cpc = "copying"
    /\ cinvoked' = TRUE
    /\ LET a == CopyCallArgs(csrc[1], cto)
       IN  db' = [db EXCEPT ![a[2]] = db[a[1]]]
    /\ CEnd("ok")
    /\ UNCHANGED <<ccmd, csrc, cto, cconfirmed, ctmp, dbStart>>

\* Line 269 raises.
CopyRunFail ==
    /\ UNCHANGED <<mvars, bvars, zvars, family>>
    /\ cpc = "copying"
    /\ cinvoked' = TRUE
    /\ \E d \in {db[cto], Empty, Partial} : db' = [db EXCEPT ![cto] = d]
    /\ CEnd("raised")
    /\ UNCHANGED <<ccmd, csrc, cto, cconfirmed, ctmp, dbStart>>

\* drop_db, lines 274-277: config.environments[environment] raises KeyError
\* for an unknown name; else drop_mongo_db empties the environment.
drop_db(e) ==
    /\ UNCHANGED <<mvars, bvars, zvars, family>>
    /\ CBegin("drop_db")
    /\ UNCHANGED <<csrc, ctmp>>
    /\ IF e \notin Environments
       THEN CEnd("keyerror") /\ UNCHANGED <<db, cto>>
       ELSE /\ cto' = e
            /\ db' = [db EXCEPT ![e] = Empty]
            /\ CEnd("ok")

\* The command has ended.
CFinish ==
    /\ UNCHANGED <<mvars, bvars, zvars, family>>
    /\ cpc = "done"
    /\ cpc' = "idle"
    /\ ccmd' = "none"
    /\ csrc' = <<>>
    /\ cto' = NoEnv
    /\ cconfirmed' = "none"
    /\ ctmp' = FALSE
    /\ cinvoked' = FALSE
    /\ dbStart' = db
    /\ cres' = "none"
    /\ UNCHANGED db

\* no archive round trip
IdleZip ==
    /\ ztree = {}
    /\ zarchive = <<>>
    /\ zout = {}
    /\ zpc = "idle"

\* The migration runner and list_migrations, one invocation at a time.
Init ==
    InitMigrate /\ IdleBackup /\ IdleCmd /\ IdleZip /\ family = "migration"

Next ==
    \/ \E r \in Runners, e \in EnvArgs : Alone(r) /\ migrate(r, e)
    \/ \E r \in Runners : ProcessLookup(r)
    \/ \E r \in Runners : ProcessBegin(r)
    \/ \E r \in Runners : BodyOk(r)
    \/ \E r \in Runners : BodyRaise(r)
    \/ \E r \in Runners : Crash(r)
    \/ \E r \in Runners : Finish(r)
    \/ \E e \in EnvArgs : lizt(e)

Spec == Init /\ [][Next]_vars

\* a migration directory of at most two units
RaceUnits == {<<<<48, 57>>, <<97>>>>, <<<<49, 48>>, <<97>>>>}

InitMigrateRace ==
    /\ files \in SUBSET RaceUnits
    /\ dirExists = TRUE
    /\ execs = [e \in Environments |-> [u \in UnitPool |-> 0]]
    /\ roverlap = FALSE
    /\ ledger = [e \in Environments |-> EmptyLedger]
    /\ rpc = [r \in Runners |-> "idle"]
    /\ renv = [r \in Runners |-> NoEnv]
    /\ rmigs = [r \in Runners |-> <<>>]
    /\ ridx = [r \in Runners |-> 0]
    /\ found = [r \in Runners |-> "none"]
    /\ startLedger = [r \in Runners |-> EmptyLedger]
    /\ bodies = [r \in Runners |-> {}]
    /\ outcome = [r \in Runners |-> "none"]
    /\ runsOn = [e \in Environments |-> 0]
    /\ anyFailure = FALSE
    /\ listing = NoListing

InitR ==
    InitMigrateRace /\ IdleBackup /\ IdleCmd /\ IdleZip /\ family = "migration"

\* The migration runner with no lock: a migrate may begin while another is in
\* progress.
NextRace ==
    \/ \E r \in Runners, e \in EnvArgs : migrate(r, e)
    \/ \E r \in Runners : ProcessLookup(r)
    \/ \E r \in Runners : ProcessBegin(r)
    \/ \E r \in Runners : BodyOk(r)
    \/ \E r \in Runners : BodyRaise(r)
    \/ \E r \in Runners : Crash(r)
    \/ \E r \in Runners : Finish(r)
    \/ \E e \in EnvArgs : lizt(e)

SpecRace == InitR /\ [][NextRace]_vars

\* The backup pipeline against a local store, one invocation at a time.
InitB ==
    IdleMigrate /\ InitBackup /\ IdleCmd /\ IdleZip /\ family = "backup"

NextBackup ==
    \/ \E p \in Invokers, e \in EnvArgs : BAlone(p) /\ backup(p, e)
    \/ \E p \in Invokers : Dump(p)
    \/ \E p \in Invokers : DumpFail(p)
    \/ \E p \in Invokers : Zip(p)
    \/ \E p \in Invokers : ZipFail(p)
    \/ \E p \in Invokers : GenName(p)
    \/ \E p \in Invokers : GenLoop(p)
    \/ \E p \in Invokers : Move(p)
    \/ \E p \in Invokers : MoveFail(p)
    \/ \E p \in Invokers : BFinish(p)
    \/ Tick

SpecBackup == InitB /\ [][NextBackup]_vars

\* a local store that is empty or holds today's archive with no counter
RacePreNames == {ArchiveName("devdb", 1, 0)}

InitBackupRace ==
    /\ backupsCfg = "local"
    /\ \E N \in SUBSET RacePreNames :
          store = {[name |-> n, bytes |-> OldBytes] : n \in N}
    /\ today = 1
    /\ staging = [p \in Invokers |-> NoFile]
    /\ bnum = [p \in Invokers |-> 0]
    /\ overlap = FALSE
    /\ tempDirs = 0
    /\ nbackups = 0
    /\ bpc = [p \in Invokers |-> "idle"]
    /\ benv = [p \in Invokers |-> NoEnv]
    /\ btmp = [p \in Invokers |-> FALSE]
    /\ bdate = [p \in Invokers |-> 0]
    /\ bstable = [p \in Invokers |-> TRUE]
    /\ bcounter = [p \in Invokers |-> 0]
    /\ bdest = [p \in Invokers |-> <<>>]
    /\ bres = [p \in Invokers |-> "none"]

InitBR ==
    IdleMigrate /\ InitBackupRace /\ IdleCmd /\ IdleZip /\ family = "backup"

\* The backup pipeline with nothing that keeps two invocations apart: a
\* backup may begin while another is in progress.
NextBackupRace ==
    \/ \E p \in Invokers, e \in EnvArgs : backup(p, e)
    \/ \E p \in Invokers : Dump(p)
    \/ \E p \in Invokers : DumpFail(p)
    \/ \E p \in Invokers : Zip(p)
    \/ \E p \in Invokers : ZipFail(p)
    \/ \E p \in Invokers : GenName(p)
    \/ \E p \in Invokers : GenLoop(p)
    \/ \E p \in Invokers : Move(p)
    \/ \E p \in Invokers : MoveFail(p)
    \/ \E p \in Invokers : BFinish(p)
    \/ Tick

SpecBackupRace == InitBR /\ [][NextBackupRace]_vars

\* The restore, copy_db and drop_db commands, one at a time.
InitC ==
    IdleMigrate /\ InitStore /\ InitCmd /\ IdleZip /\ family = "data"

NextCmd ==
    \/ \E arg \in RestoreArgs : restore(arg)
    \/ \E arg \in CopyArgs : copy_db(arg)
    \/ \E answer \in {"yes", "no"}, zipOk \in BOOLEAN : Confirm(answer, zipOk)
    \/ Extract
    \/ ExtractFail
    \/ RestoreRun
    \/ RestoreRunFail
    \/ CopyRun
    \/ CopyRunFail
    \/ \E e \in EnvArgs : drop_db(e)
    \/ CFinish

SpecCmd == InitC /\ [][NextCmd]_vars

\* ------------------------------------------------------------------------
\* zipdir and extractall
\* ------------------------------------------------------------------------
MaxFiles == 2        \* files under the dump path

\* A path is the sequence of its components.  The directories and the file
\* names a dump may hold, and file contents.
ZDirs == {<<>>, <<"devdb">>, <<"devdb", "idx">>, <<"proddb">>}
ZNames == {"a.bson", "b.bson"}
ZBytes == {1, 2}
ZPaths == {d \o <<n>> : d \in ZDirs, n \in ZNames}

\* the trees of at most MaxFiles files
Trees ==
    {T \in SUBSET [path : ZPaths, bytes : ZBytes] :
        /\ Cardinality(T) <= MaxFiles
        /\ \A f, g \in T : f.path = g.path => f = g}

\* os.path.dirname and os.path.basename
dirname(p) == SubSeq(p, 1, Len(p) - 1)
basename(p) == p[Len(p)]

IsPrefix(a, b) == Len(a) <= Len(b) /\ SubSeq(b, 1, Len(a)) = a

\* os.path.relpath(p, start) for a start that is above p
relpath(p, start) == SubSeq(p, Len(start) + 1, Len(p))

\* The order in which os.listdir gives the names of a directory is the file
\* system's: the names in this order, or in the reverse one.
ListdirOrder == <<"a.bson", "b.bson", "devdb", "idx", "proddb">>
Rank(rev, name) ==
    LET i == CHOOSE k \in 1..Len(ListdirOrder) : ListdirOrder[k] = name
    IN  IF rev THEN Len(ListdirOrder) + 1 - i ELSE i

\* Line 422, os.walk(path), top-down: file f is met before file g.  The files
\* of a directory come before those of its sub-directories, and
\* sub-directories in the order of the listing.
WalkBefore(rev, f, g) ==
    LET df == dirname(f)
        dg == dirname(g)
    IN  IF df = dg THEN Rank(rev, basename(f)) < Rank(rev, basename(g))
        ELSE IF IsPrefix(df, dg) THEN TRUE
        ELSE IF IsPrefix(dg, df) THEN FALSE
        ELSE LET i == CHOOSE k \in 1..Len(df) :
                          /\ k <= Len(dg)
                          /\ df[k] # dg[k]
                          /\ \A j \in 1..(k - 1) : df[j] = dg[j]
             IN  Rank(rev, df[i]) < Rank(rev, dg[i])

\* the files of a tree in the order of the walk
Walk(rev, T) ==
    CHOOSE w \in [1..Cardinality(T) -> T] :
        /\ \A i, j \in 1..Cardinality(T) :
              i < j => (w[i] # w[j] /\ WalkBefore(rev, w[i].path, w[j].path))

\* Lines 421-424, zipdir: every file is written under the name
\* os.path.relpath(os.path.join(root, file), root), root being the directory
\* that holds the file.
zipdir(rev, T) ==
    LET w == Walk(rev, T)
    IN  [i \in 1..Len(w) |->
            [arcname |-> relpath(w[i].path, dirname(w[i].path)),
             bytes |-> w[i].bytes]]

\* Line 481, zip.extractall into an empty directory: every member is written
\* at its name; of members with one name the last one written stays.
extractall(arch) ==
    {[path |-> arch[i].arcname, bytes |-> arch[i].bytes] :
        i \in {k \in 1..Len(arch) :
                 \A j \in (k + 1)..Len(arch) : arch[j].arcname # arch[k].arcname}}

InitZip ==
    /\ ztree \in Trees
    /\ zarchive = <<>>
    /\ zout = {}
    /\ zpc = "idle"

\* Lines 426-428: the dump is packaged.
ZipDir(rev) ==
    /\ UNCHANGED <<mvars, bvars, cvars, family>>
    /\ zpc = "idle"
    /\ zarchive' = zipdir(rev, ztree)
    /\ zpc' = "zipped"
    /\ UNCHANGED <<ztree, zout>>

\* Lines 479-481: the archive is unpacked into the temporary directory.
ExtractAll ==
    /\ UNCHANGED <<mvars, bvars, cvars, family>>
    /\ zpc = "zipped"
    /\ zout' = extractall(zarchive)
    /\ zpc' = "extracted"
    /\ UNCHANGED <<ztree, zarchive>>

\* Packaging a dump as backup_localy does, unpacking it as restore_db does.
InitZ ==
    IdleMigrate /\ IdleBackup /\ IdleCmd /\ InitZip /\ family = "archive"

NextZip ==
    \/ \E rev \in BOOLEAN : ZipDir(rev)
    \/ ExtractAll

SpecZip == InitZ /\ [][NextZip]_vars

\* Every command above, one at a time: a behaviour exercises the migration
\* commands, the backup command, or restore, copy_db and drop_db.
InitAll == Init \/ InitB \/ InitC

NextAll ==
    \/ family = "migration" /\ Next
    \/ family = "backup" /\ NextBackup
    \/ family = "data" /\ NextCmd

SpecAll == InitAll /\ [][NextAll]_vars

\* ========================================================================
\* Properties of the migration runner
\* ========================================================================

\* the units at positions 1..n of a sequence
Upto(m, n) == {m[i] : i \in 1..n}

\* invocation r began with no ledger record for any discovered unit
Fresh(r) == \A u \in files : startLedger[r][u] = "absent"

\* C1: halt on failure.  When a run that began with no ledger records ends
\* and the body of the unit at position k raised during it, every unit before
\* position k is COMPLETE, that unit is FAILED, and every unit after it has
\* no record and its body was not invoked.
C1_HaltOnFailure ==
    \A r \in Runners :
        (rpc[r] = "done" /\ renv[r] \in Environments /\ Fresh(r)) =>
            \A k \in 1..Len(rmigs[r]) :
                (rmigs[r][k] \in bodies[r]
                 /\ ledger[renv[r]][rmigs[r][k]] = "FAILED") =>
                    /\ outcome[r] = "raised"
                    /\ \A j \in 1..(k - 1) :
                          ledger[renv[r]][rmigs[r][j]] = "COMPLETE"
                    /\ \A j \in (k + 1)..Len(rmigs[r]) :
                          /\ ledger[renv[r]][rmigs[r][j]] = "absent"
                          /\ rmigs[r][j] \notin bodies[r]

\* A run over three units has ended with the second one's body raising.
C1_Witness ==
    \E r \in Runners :
        /\ rpc[r] = "done" /\ outcome[r] = "raised" /\ Fresh(r)
        /\ Len(rmigs[r]) = 3 /\ ridx[r] = 2
        /\ ledger[renv[r]][rmigs[r][1]] = "COMPLETE"
        /\ ledger[renv[r]][rmigs[r][2]] = "FAILED"
        /\ ledger[renv[r]][rmigs[r][3]] = "absent"

\* C2: at most one successful execution.  In every step, a record that is
\* COMPLETE stays COMPLETE and no invocation connected to that environment
\* invokes the unit's body.
C2_AtMostOnce ==
    [][\A e \in Environments, u \in UnitPool :
          ledger[e][u] = "COMPLETE" =>
              /\ ledger'[e][u] = "COMPLETE"
              /\ \A r \in Runners :
                    renv[r] = e => ~(u \in bodies'[r] /\ u \notin bodies[r])
      ]_vars

\* A later run has gone over a unit that was COMPLETE when it began.
C2_Witness ==
    \E r \in Runners :
        /\ rpc[r] = "done" /\ outcome[r] = "ok"
        /\ runsOn[renv[r]] >= 1
        /\ \E u \in files : startLedger[r][u] = "COMPLETE"

\* C3: no automatic retry.  A body is invoked only after the lookup of its
\* name returned absent; a unit whose record was RUNNING or FAILED when the
\* run began keeps that record and its body is not invoked by the run.
C3_NoRetry ==
    \A r \in Runners :
        rpc[r] # "idle" =>
            /\ rpc[r] = "body" => found[r] = "absent"
            /\ \A u \in bodies[r] : startLedger[r][u] = "absent"
            /\ renv[r] \in Environments =>
                  \A u \in UnitPool :
                      startLedger[r][u] \in {"RUNNING", "FAILED"} =>
                          /\ ledger[renv[r]][u] = startLedger[r][u]
                          /\ u \notin bodies[r]

\* A run has ended that found the first unit RUNNING (left by an interrupted
\* run), skipped it, and invoked the bodies of the two units after it.
C3_Witness ==
    \E r \in Runners :
        /\ rpc[r] = "done" /\ outcome[r] = "ok"
        /\ Len(rmigs[r]) = 3
        /\ startLedger[r][rmigs[r][1]] = "RUNNING"
        /\ ledger[renv[r]][rmigs[r][1]] = "RUNNING"
        /\ bodies[r] = {rmigs[r][2], rmigs[r][3]}

\* every line of a list_migrations report says COMPLETE
AllComplete(report) == \A i \in 1..Len(report) : report[i][2] = "COMPLETE"

\* C4: idempotence.  While no body has raised and no run was interrupted: at
\* the end of a run list_migrations would report COMPLETE for every discovered
\* unit; at the end of a second or later run against the environment the
\* ledger is what it was when the run began and the run invoked no body; and
\* a list_migrations made after a run reports every discovered unit COMPLETE.
C4_Idempotent ==
    ~anyFailure =>
        /\ \A r \in Runners :
              (rpc[r] = "done" /\ outcome[r] = "ok") =>
                  /\ Len(LiztReport(find_migrations(files), ledger[renv[r]]))
                        = Cardinality(files)
                  /\ AllComplete(LiztReport(find_migrations(files),
                                            ledger[renv[r]]))
                  /\ runsOn[renv[r]] >= 1 =>
                        /\ ledger[renv[r]] = startLedger[r]
                        /\ bodies[r] = {}
        /\ (listing[1] = "listing" /\ runsOn[listing[2]] >= 1) =>
              /\ Len(listing[3]) = Cardinality(files)
              /\ {listing[3][i][1] : i \in 1..Len(listing[3])} = files
              /\ AllComplete(listing[3])

\* list_migrations after the second run against an environment with three
\* units, none of which failed.
C4_Witness ==
    /\ ~anyFailure
    /\ listing[1] = "listing"
    /\ runsOn[listing[2]] = 2
    /\ Len(listing[3]) = 3
    /\ AllComplete(listing[3])

\* a sorts before b: smaller ordering key, or the same key and the smaller
\* identifier string
Before(a, b) ==
    \/ OrderingKey(a) < OrderingKey(b)
    \/ OrderingKey(a) = OrderingKey(b) /\ StrLess(NameStr(a), NameStr(b))

\* C5: ordering.  The units a run has processed so far, in the order it
\* processed them, ascend by ordering key with ties broken by the identifier
\* string, each is processed once, and no unit still to be processed sorts
\* before a processed one; the run iterates exactly the discovered units.
C5_Ordering ==
    \A r \in Runners :
        (rpc[r] # "idle" /\ renv[r] \in Environments) =>
            /\ Upto(rmigs[r], Len(rmigs[r])) = files
            /\ Len(rmigs[r]) = Cardinality(files)
            /\ \A i, j \in 1..ridx[r] :
                  i < j => Before(rmigs[r][i], rmigs[r][j])
            /\ \A u \in files \ Upto(rmigs[r], ridx[r]) :
                  \A i \in 1..ridx[r] : ~Before(u, rmigs[r][i])

\* A run has processed "09"+"ab", then "10"+"a" and "10"+"ab": the keys decide
\* before the labels, and the tie at "10" is broken by the name.
C5_Witness ==
    \E r \in Runners :
        /\ rpc[r] = "done" /\ outcome[r] = "ok"
        /\ rmigs[r] = << <<<<48, 57>>, <<97, 98>>>>,
                         <<<<49, 48>>, <<97>>>>,
                         <<<<49, 48>>, <<97, 98>>>> >>
        /\ bodies[r] = files

\* ========================================================================
\* Properties of the backup pipeline
\* ========================================================================

\* invocation p moves its archive into the store in this step
MovesIn(p) == bpc[p] = "move" /\ bpc'[p] = "done" /\ bres'[p] = "ok"

\* C6: an existing archive is never overwritten.  With one invocation at a
\* time, every step keeps every archive of the store, name and bytes; a step
\* in which an invocation succeeds adds exactly one archive, under a name the
\* store did not hold; and no other step changes the store.
C6_NeverOverwritten ==
    [][/\ \A a \in store : a \in store'
       /\ \A p \in Invokers :
             MovesIn(p) =>
                 \E a \in store' :
                     /\ a.name \notin StoreNames(store)
                     /\ store' = store \cup {a}
       /\ store' # store => \E p \in Invokers : MovesIn(p)
      ]_vars

\* Two backups of development on day 1, into a store that held an archive of
\* day 2: the three are there, the second backup under the _2 name.
C6_Witness ==
    \E p \in Invokers :
        /\ bpc[p] = "done" /\ bres[p] = "ok"
        /\ [name |-> ArchiveName("devdb", 2, 0), bytes |-> OldBytes] \in store
        /\ [name |-> ArchiveName("devdb", 1, 0), bytes |-> <<"dump", 1>>]
              \in store
        /\ [name |-> ArchiveName("devdb", 1, 2), bytes |-> <<"dump", 2>>]
              \in store

\* the name the specification asks for: without a counter when that is free,
\* else with the smallest counter >= 2 that is free
ExpectedName(st, dbname, date) ==
    IF ArchiveName(dbname, date, 0) \notin StoreNames(st)
    THEN ArchiveName(dbname, date, 0)
    ELSE LET free(k) == ArchiveName(dbname, date, k) \notin StoreNames(st)
             limit == Cardinality(st) + 2
         IN  ArchiveName(dbname, date,
                 CHOOSE k \in 2..limit :
                     free(k) /\ \A j \in 2..(k - 1) : ~free(j))

C10_TempDirRemoved ==
    \A p \in Invokers : bpc[p] = "done" => ~btmp[p]

\* ========================================================================
\* Properties of restore, copy_db and drop_db
\* ========================================================================

\* C8: confirmation gate for restore and copy.  In an execution of restore or
\* copy_db the capability is at work or was invoked only after the operator
\* confirmed in that execution, and as long as the operator has not confirmed
\* (no answer yet, or declined) every environment's data set is what it was
\* when the command began.
C8_ConfirmGate ==
    ccmd \in {"restore", "copy_db"} =>
        /\ (cinvoked \/ cpc \in {"extract", "restoring", "copying"})
              => cconfirmed = "yes"
        /\ cconfirmed # "yes" => (db = dbStart /\ ~cinvoked)
        /\ cres = "declined" => (cconfirmed = "no" /\ cpc = "done")

\* A restore the operator confirmed has replaced the target's data set.
C8_Witness ==
    /\ ccmd = "restore" /\ cpc = "done" /\ cres = "ok"
    /\ cconfirmed = "yes" /\ cinvoked
    /\ db[cto] = DataOf(OldBytes) /\ dbStart[cto] # db[cto]

\* C9: confirmation gate for drop.  drop_db empties the environment only after
\* the operator confirmed.
C9_DropGate ==
    (ccmd = "drop_db" /\ db # dbStart) => cconfirmed = "yes"

\* C11: restore scoped cleanup.  When the restore command has ended, on any
\* path, the directory temp_directory() made does not exist.
C11_RestoreTempDirRemoved ==
    (ccmd = "restore" /\ cpc = "done") => ~ctmp

\* ========================================================================
\* Properties of the backup command's configuration tests
\* ========================================================================

\* settings.BACKUPS names no store, or a LOCAL store with no backup_dir, or
\* one whose backup_dir is no directory
Misconfigured ==
    backupsCfg \in {"unset", "other", "local_nokey", "local_nodir"}

\* C12: backup fails fast on a misconfigured store.  With such a store every
\* backup invocation has ended with a message and exit; no temporary
\* directory was made, no pipeline reached the dump, no archive was staged and
\* the store holds what it held.
C12_FailFast ==
    Misconfigured =>
        /\ tempDirs = 0 /\ nbackups = 0
        /\ \A a \in store : a.bytes = OldBytes
        /\ \A p \in Invokers :
              /\ bpc[p] \in {"idle", "done"}
              /\ ~btmp[p] /\ bnum[p] = 0 /\ staging[p] = NoFile
              /\ bpc[p] = "done" => bres[p] \in {"exit", "badenv"}

\* A backup of a configured environment has exited because backup_dir is no
\* directory.
C12_Witness ==
    /\ backupsCfg = "local_nodir"
    /\ \E p \in Invokers : bpc[p] = "done" /\ bres[p] = "exit"
    /\ tempDirs = 0

\* ========================================================================
\* Properties of restore's failures
\* ========================================================================

\* how a restore ends that failed before restore_mongo_db: no ':' in the
\* argument, more than one ':', an archive the listing does not hold, an
\* archive ZipFile cannot open, an extractall that raised
PreRestoreFailures ==
    {"malformed", "malformed_raised", "notfound", "badzip", "unpack_failed"}

\* C13: restore leaves the target untouched on pre-restore failures.  A
\* restore that met a malformed argument, an archive missing from the listing
\* or a failed unpacking has ended without invoking the restore capability,
\* and every environment's data set is what it was when the command began.
C13_TargetUntouched ==
    (ccmd = "restore" /\ cres \in PreRestoreFailures) =>
        /\ cpc = "done"
        /\ ~cinvoked
        /\ db = dbStart

\* A confirmed restore whose extractall raised has ended.
C13_Witness ==
    /\ ccmd = "restore" /\ cpc = "done" /\ cres = "unpack_failed"
    /\ cconfirmed = "yes" /\ ~cinvoked
    /\ db = dbStart

\* ========================================================================
\* Properties of the environment argument
\* ========================================================================

\* C14: environment-name validation.  A command given a name that is not in
\* the configured environments has ended at once: migrate and list_migrations
\* without a connection, a ledger read or a body; backup without a temporary
\* directory or a dump; restore, copy_db and drop_db without a prompt, a
\* capability or a change of any data set.  Whatever connects, dumps, drops,
\* copies or restores does so for configured environments only.
C14_EnvValidation ==
    /\ \A r \in Runners :
          /\ renv[r] \in Environments \cup {NoEnv}
          /\ rpc[r] \notin {"idle", "done"} => renv[r] \in Environments
          /\ outcome[r] = "badenv" =>
                /\ rpc[r] = "done" /\ renv[r] = NoEnv
                /\ rmigs[r] = <<>> /\ found[r] = "none" /\ bodies[r] = {}
    /\ listing[1] = "listing" => listing[2] \in Environments
    /\ \A p \in Invokers :
          /\ (bpc[p] \notin {"idle", "done"} \/ btmp[p])
                => benv[p] \in Environments
          /\ bres[p] = "badenv" =>
                /\ bpc[p] = "done" /\ benv[p] = NoEnv
                /\ ~btmp[p] /\ bnum[p] = 0
    /\ cres \in {"badenv", "keyerror"} =>
          /\ cpc = "done" /\ cconfirmed = "none"
          /\ ~cinvoked /\ ~ctmp
          /\ db = dbStart
    /\ (cpc \in {"confirm", "extract", "restoring", "copying"} \/ cinvoked
            \/ db # dbStart) =>
          /\ cto \in Environments
          /\ ccmd = "copy_db" => csrc[1] \in Environments

\* drop_db of a name that is not configured has ended with every data set as
\* it was.
C14_Witness ==
    /\ ccmd = "drop_db" /\ cpc = "done" /\ cres = "keyerror"
    /\ cto = NoEnv /\ db = dbStart

\* ========================================================================
\* Properties of migration discovery
\* ========================================================================

\* C15: discovery of an absent directory is an error.  With no migration
\* directory, migrate does not end with "No migrations exist" and
\* list_migrations does not print its report for no migrations: neither
\* behaves as if the directory were there and empty.
C15_AbsentDirIsError ==
    ~dirExists =>
        /\ \A r \in Runners : outcome[r] # "nomigs"
        /\ listing[1] # "listing"

\* ========================================================================
\* Properties of the archive
\* ========================================================================

\* C16: archive round trip.  Packaging a dump directory and unpacking the
\* archive gives the files of the dump, each at its relative path and with its
\* bytes.
C16_RoundTrip ==
    zpc = "extracted" => zout = ztree

\* ========================================================================
\* Properties of copy_db
\* ========================================================================

\* C17: environment copy result.  When copy_db source:dest has ended after
\* the operator confirmed and copy_mongo_db returned, the destination holds
\* the data set the source held when the command began, the source still
\* holds it, and no other environment has changed.
C17_CopyResult ==
    (ccmd = "copy_db" /\ cpc = "done" /\ cres = "ok") =>
        /\ cconfirmed = "yes" /\ cinvoked
        /\ db[cto] = dbStart[csrc[1]]
        /\ db[csrc[1]] = dbStart[csrc[1]]
        /\ \A e \in Environments \ {cto} : db[e] = dbStart[e]

\* A copy between two environments whose data sets differed has ended: the
\* destination's former data set is gone.
C17_Witness ==
    /\ ccmd = "copy_db" /\ cpc = "done" /\ cres = "ok"
    /\ csrc[1] # cto
    /\ dbStart[cto] # dbStart[csrc[1]]
    /\ db[cto] = dbStart[csrc[1]] /\ db[cto] # dbStart[cto]

\* ========================================================================
\* Properties of overlapping backups
\* ========================================================================

\* C18: backup naming race.  A move replaces an archive of the store only in
\* a behaviour in which a backup began while another was in progress: every
\* name generate_unique_name returns was free when it was tested, so an
\* archive can be lying there at the move only if another invocation put it
\* there in between.  Where invocations never overlap no move replaces an
\* archive.
C18_OverwriteNeedsOverlap ==
    [][\A p \in Invokers :
          (MovesIn(p) /\ bdest[p] \in StoreNames(store)) => overlap]_vars

\* Two overlapping invocations have both ended well under one name: the store
\* holds the archive of the one that moved last, and the other one's archive
\* is nowhere.
C18_Witness ==
    \E p, q \in Invokers :
        /\ p # q /\ overlap
        /\ bpc[p] = "done" /\ bres[p] = "ok"
        /\ bpc[q] = "done" /\ bres[q] = "ok"
        /\ bdest[p] = bdest[q] /\ bnum[p] # bnum[q]
        /\ [name |-> bdest[q], bytes |-> <<"dump", bnum[q]>>] \in store
        /\ \A a \in store : a.bytes # <<"dump", bnum[p]>>

\* ========================================================================
\* Properties of overlapping runners
\* ========================================================================

\* C19: runner race.  A unit's body is invoked more than once against an
\* environment only in a behaviour in which a migrate began while another was
\* in progress.  Where invocations never overlap every body is invoked at
\* most once.
C19_DoubleRunNeedsOverlap ==
    \A e \in Environments, u \in UnitPool :
        execs[e][u] > 1 => roverlap

\* Two invocations against one environment have both found no record of the
\* unit they are at and have both invoked its body.
C19_Witness ==
    \E r, q \in Runners :
        /\ r # q /\ roverlap
        /\ renv[r] \in Environments /\ renv[q] = renv[r]
        /\ ridx[r] > 0 /\ ridx[q] > 0
        /\ Current(r) = Current(q)
        /\ found[r] = "absent" /\ found[q] = "absent"
        /\ Current(r) \in bodies[r] /\ Current(q) \in bodies[q]
        /\ execs[renv[r]][Current(r)] = 2

\* ========================================================================
\* Properties of list_migrations
\* ========================================================================

\* what list_migrations is to show for a ledger entry
Shown(rec) == IF rec \in {"COMPLETE", "RUNNING", "FAILED"} THEN rec ELSE "NOT RUN"

\* C20: list_migrations is a read-only projection of the ledger.  A step
\* that prints a listing leaves the ledger and every invocation as they were
\* and invokes no body; the listing has one line for every discovered unit,
\* in discovery order, and the line shows the state of the unit's record in
\* the environment's ledger, or NOT RUN when there is none.
C20_ReadOnlyProjection ==
    [][listing'[1] = "listing" =>
          /\ ledger' = ledger
          /\ bodies' = bodies /\ execs' = execs
          /\ rpc' = rpc /\ anyFailure' = anyFailure /\ runsOn' = runsOn
          /\ LET names == find_migrations(Glob)
                 report == listing'[3]
             IN  /\ Len(report) = Len(names)
                 /\ \A i \in 1..Len(names) :
                       /\ report[i][1] = names[i]
                       /\ report[i][2] = Shown(ledger[listing'[2]][names[i]])]_vars

\* A listing of three units after a run whose second body raised: COMPLETE,
\* FAILED, NOT RUN.
C20_Witness ==
    /\ listing[1] = "listing"
    /\ Len(listing[3]) = 3
    /\ listing[3][1][2] = "COMPLETE"
    /\ listing[3][2][2] = "FAILED"
    /\ listing[3][3][2] = "NOT RUN"
    /\ ledger[listing[2]][listing[3][2][1]] = "FAILED"
    /\ ledger[listing[2]][listing[3][3][1]] = "absent"

====
